---- MODULE Spec2Model ----
(***************************************************************************)
(* gb: interactive terminal picker for local git branches (src/main.rs).   *)
(* The model follows main(): terminal acquisition, App::new (branch load   *)
(* and first filter), the draw/read loop of run_app, terminal teardown and *)
(* the report of a loop error.                                             *)
(*                                                                         *)
(* Option<usize> is a sequence of length 0 (None) or 1 (Some(p)).  Indices *)
(* are 0-based as in the source; branches[i] is Branches[i + 1] here.      *)
(***************************************************************************)
EXTENDS Integers, Sequences, FiniteSets, TLC

\* ---------------------------------------------------------------- bounds
\* Largest number of local branches a repository of the model holds.
MaxRepoBranches == 12
\* Longest Filter Text typed in a session.
MaxFilterLen == 2
\* Number of timestamp layouts of a repository (see RepoEntry).
MaxStride == 2

\* Largest multiple of a minute, an hour and a day among the commit ages
\* of AgeInputs.
MaxAgeUnits == 3

\* ------------------------------------------------------- program constants
\* branches.into_iter().take(10)
BranchCap == 10

\* ------------------------------------------------------------ Option<usize>
None == << >>
Some(p) == << p >>

\* ------------------------------------------------------------------ strings
\* char::to_lowercase on the characters of the model's alphabet.
LowerChar(c) ==
    CASE c = "A" -> "a"
      [] c = "J" -> "j"
      [] c = "K" -> "k"
      [] c = "Q" -> "q"
      [] OTHER -> c

\* str::to_lowercase: character by character.
to_lowercase(s) == [i \in 1..Len(s) |-> LowerChar(s[i])]

\* str::contains(&str): needle occurs in hay as a contiguous substring.
contains(hay, needle) ==
    \E off \in 0..(Len(hay) - Len(needle)) :
        \A k \in 1..Len(needle) : hay[off + k] = needle[k]

\* --------------------------------------------------------------- repository
\* Wall-clock time of the session, in seconds (Utc::now()).
Now == 1000000

\* Ages, in seconds, of the commits the branches of a repository point to;
\* None where the reference has no target or its commit cannot be found.
AgeSamples == << << 172800 >>, << 3600 >>, << 180 >>, << >>, << 90000 >>, << 59 >>, << -60 >> >>

\* The enumerated branch whose name is not valid UTF-8.
UnnamedAt == 3

NameAlphabet == << "a", "A", "j", "J" >>

\* Name of the i-th enumerated branch: two characters, unique per i.
BranchName(i) ==
    << NameAlphabet[(((i - 1) \div 4) % 4) + 1], NameAlphabet[((i - 1) % 4) + 1] >>

\* What git2 yields for the i-th local branch of a repository:
\*   name      Some(name) or None (branch.name()? is Ok(None): not UTF-8)
\*   is_head   branch.is_head()
\*   time      Some(seconds) or None (no target, or the commit is not found)
\* stride lays the sample ages out over the branches in a different order.
RepoEntry(i, head, stride) ==
    [ name    |-> IF i = UnnamedAt THEN None ELSE Some(BranchName(i)),
      is_head |-> (i = head),
      time    |-> LET age == AgeSamples[((i * stride) % Len(AgeSamples)) + 1]
                  IN  IF age = None THEN None ELSE Some(Now - age[1]) ]

Repo(n, head, stride) == [i \in 1..n |-> RepoEntry(i, head, stride)]

\* fetch_branches, lines 51-77: one GitBranch per entry that has a name; an
\* unresolvable commit time falls back to Utc::now().
RECURSIVE collect_branches(_)
collect_branches(repo) ==
    IF repo = << >> THEN << >>
    ELSE LET e == Head(repo)
             rest == collect_branches(Tail(repo))
         IN  IF e.name = None THEN rest
             ELSE << [ name |-> e.name[1],
                       is_current |-> e.is_head,
                       last_commit_time |-> IF e.time = None THEN Now ELSE e.time[1] ] >>
                  \o rest

\* Insert b into a sequence sorted descending by last_commit_time, after
\* every element that is not older (slice::sort_by is stable).
RECURSIVE insert_desc(_, _)
insert_desc(b, s) ==
    IF s = << >> THEN << b >>
    ELSE IF Head(s).last_commit_time >= b.last_commit_time
         THEN << Head(s) >> \o insert_desc(b, Tail(s))
         ELSE << b >> \o s

\* branches.sort_by(|a, b| b.last_commit_time.cmp(&a.last_commit_time))
RECURSIVE sort_desc(_)
sort_desc(s) ==
    IF s = << >> THEN << >>
    ELSE LET sortedFront == sort_desc(SubSeq(s, 1, Len(s) - 1))
         IN  insert_desc(s[Len(s)], sortedFront)

\* take that keeps every element.
take_all(s, n) == s

\* .into_iter().take(10).collect()
take(s, n) == SubSeq(s, 1, IF Len(s) < n THEN Len(s) ELSE n)

fetch_branches(repo) == take(sort_desc(collect_branches(repo)), BranchCap)

\* ------------------------------------------------------------ update_filter
\* .iter().enumerate().filter(name.to_lowercase().contains(filter.to_lowercase()))
\* .map(|(i, _)| i).collect(), scanning from index i (0-based).
RECURSIVE filter_from_case_sensitive(_, _, _)
filter_from_case_sensitive(bs, f, i) ==
    IF i >= Len(bs) THEN << >>
    ELSE (IF contains(to_lowercase(bs[i + 1].name), f)
          THEN << i >> ELSE << >>)
         \o filter_from_case_sensitive(bs, f, i + 1)

RECURSIVE filter_from(_, _, _)
filter_from(bs, f, i) ==
    IF i >= Len(bs) THEN << >>
    ELSE (IF contains(to_lowercase(bs[i + 1].name), to_lowercase(f))
          THEN << i >> ELSE << >>)
         \o filter_from(bs, f, i + 1)

\* update_filter without the empty case of lines 102-106.
update_filter_always_first(bs, f) ==
    LET fb == IF f = << >>
              THEN [i \in 1..Len(bs) |-> i - 1]
              ELSE filter_from(bs, f, 0)
    IN  [ filtered_branches |-> fb, selected |-> Some(0) ]

\* The new (filtered_branches, list_state.selected()) for branches bs and filter f.
update_filter(bs, f) ==
    LET fb == IF f = << >>
              THEN [i \in 1..Len(bs) |-> i - 1]
              ELSE filter_from(bs, f, 0)
    IN  [ filtered_branches |-> fb,
          selected |-> IF fb # << >> THEN Some(0) ELSE None ]

\* ------------------------------------------------------------ next/previous
\* next that stops at the last row instead of wrapping.
next_clamped(sel, len) ==
    IF len = 0 THEN sel
    ELSE IF sel # None
         THEN (IF sel[1] >= len - 1 THEN Some(len - 1) ELSE Some(sel[1] + 1))
         ELSE Some(0)

\* next with `>` for `>=` in line 115.
next_off_by_one(sel, len) ==
    IF len = 0 THEN sel
    ELSE IF sel # None
         THEN (IF sel[1] > len - 1 THEN Some(0) ELSE Some(sel[1] + 1))
         ELSE Some(0)

\* App::next: the new list_state.selected() for selection sel over len rows.
next(sel, len) ==
    IF len = 0 THEN sel
    ELSE IF sel # None
         THEN (IF sel[1] >= len - 1 THEN Some(0) ELSE Some(sel[1] + 1))
         ELSE Some(0)

\* previous that stops at the first row instead of wrapping.
previous_clamped(sel, len) ==
    IF len = 0 THEN sel
    ELSE IF sel # None
         THEN (IF sel[1] = 0 THEN Some(0) ELSE Some(sel[1] - 1))
         ELSE Some(0)

\* App::previous
previous(sel, len) ==
    IF len = 0 THEN sel
    ELSE IF sel # None
         THEN (IF sel[1] = 0 THEN Some(len - 1) ELSE Some(sel[1] - 1))
         ELSE Some(0)

\* ------------------------------------------------------------------ results
\* anyhow::Result<()>: not yet produced, Ok(()), or Err carrying a message.
Unset == [state |-> "unset", source |-> "", text |-> ""]
Ok == [state |-> "ok", source |-> "", text |-> ""]
Err(source, text) == [state |-> "err", source |-> source, text |-> text]

\* Standard-error texts of a failing `git checkout`.
StderrTexts == { "error: pathspec did not match", "" }

\* ------------------------------------------------------------------- events
\* Characters a Char key event carries.
KeyChars == { "a", "J", "q", "j", "k" }

Key(code, ch, kind) == [type |-> "Key", code |-> code, ch |-> ch, kind |-> kind]

KeyKinds == { "Press", "Release", "Repeat" }

\* Key codes other than Char; "Tab" stands for every code run_app does not map.
PlainCodes == { "Esc", "Down", "Up", "Enter", "Backspace", "Tab" }

\* Every key of the model, as << code, character >>.
Keys == { << "Char", c >> : c \in KeyChars } \cup { << code, "" >> : code \in PlainCodes }

\* The keys that also arrive released or repeated: one key of each arm that
\* changes the App or ends the loop.
HeldKeys == { << "Char", "a" >>, << "Esc", "" >>, << "Down", "" >>,
              << "Enter", "" >>, << "Backspace", "" >> }

KeyEvents ==
    { Key(key[1], key[2], "Press") : key \in Keys }
    \cup { Key(key[1], key[2], k) : key \in HeldKeys, k \in KeyKinds \ { "Press" } }

\* Event::Mouse, Event::Resize, ...: everything that is not Event::Key.
OtherEvents == { [type |-> t, code |-> "", ch |-> "", kind |-> ""] : t \in { "Mouse", "Resize" } }

NoEvent == [type |-> "None", code |-> "", ch |-> "", kind |-> ""]

\* IsPress without the test of key.kind in line 265.
IsPress_any_kind(ev) == ev.type = "Key"

IsPress(ev) == ev.type = "Key" /\ ev.kind = "Press"

\* The arms of `match key.code`, in source order.
IsQuitKey(ev) == IsPress(ev) /\ ((ev.code = "Char" /\ ev.ch = "q") \/ ev.code = "Esc")
IsNextKey(ev) == IsPress(ev) /\ (ev.code = "Down" \/ (ev.code = "Char" /\ ev.ch = "j"))
IsPreviousKey(ev) == IsPress(ev) /\ (ev.code = "Up" \/ (ev.code = "Char" /\ ev.ch = "k"))
IsEnterKey(ev) == IsPress(ev) /\ ev.code = "Enter"
IsBackspaceKey(ev) == IsPress(ev) /\ ev.code = "Backspace"
IsCharKey(ev) ==
    /\ IsPress(ev) /\ ev.code = "Char"
    /\ ~IsQuitKey(ev) /\ ~IsNextKey(ev) /\ ~IsPreviousKey(ev)
IsIgnored(ev) ==
    ~(IsQuitKey(ev) \/ IsNextKey(ev) \/ IsPreviousKey(ev) \/ IsEnterKey(ev)
      \/ IsBackspaceKey(ev) \/ IsCharKey(ev))

\* -------------------------------------------------------------------- state
VARIABLES
    pc,                \* position of main(): the statement executed next
    raw_mode,          \* terminal: raw mode enabled
    alt_screen,        \* terminal: alternate screen entered
    mouse_capture,     \* terminal: mouse capture enabled
    cursor_hidden,     \* terminal: cursor hidden (by Terminal::draw)
    branches,          \* App.branches
    filtered_branches, \* App.filtered_branches
    selected,          \* App.list_state.selected()
    filter,            \* App.filter
    res,               \* main's `res`, the result of run_app
    invocations,       \* `git checkout` processes the session started
    shown,             \* what was printed for the user, and the terminal then
    exit_code,         \* process exit status; -1 while running
    frame,             \* Option: what the last Terminal::draw painted (see ui)
    lastEvent,         \* history: the event read last
    prev               \* history: the App state when lastEvent was read

vars == << pc, raw_mode, alt_screen, mouse_capture, cursor_hidden, branches,
           filtered_branches, selected, filter, res, invocations, shown,
           exit_code, frame, lastEvent, prev >>

termVars == << raw_mode, alt_screen, mouse_capture, cursor_hidden >>
appVars == << branches, filtered_branches, selected, filter >>
histVars == << lastEvent, prev >>

\* ui, lines 199-201: the branch of the row drawn as selected, as an Option.
highlighted(sel, fb, bs) ==
    IF sel # None /\ sel[1] < Len(fb) THEN << bs[fb[sel[1] + 1] + 1] >> ELSE << >>

Snapshot == [ filter |-> filter, filtered_branches |-> filtered_branches,
              selected |-> selected,
              highlighted |-> highlighted(selected, filtered_branches, branches) ]

NoSnapshot == [ filter |-> << >>, filtered_branches |-> << >>, selected |-> None,
                highlighted |-> << >> ]

\* Integer division of chrono's Duration::num_*: rounds towards zero.
TruncDiv(a, b) == IF a >= 0 THEN a \div b ELSE -((-a) \div b)

Max(a, b) == IF a >= b THEN a ELSE b

\* time_ago without the floor of one minute.
time_ago_no_floor(now, t) ==
    LET duration == now - t
        num_days == TruncDiv(duration, 86400)
        num_hours == TruncDiv(duration, 3600)
        num_minutes == TruncDiv(duration, 60)
    IN  IF num_days > 0 THEN [ n |-> num_days, unit |-> "d" ]
        ELSE IF num_hours > 0 THEN [ n |-> num_hours, unit |-> "h" ]
        ELSE [ n |-> num_minutes, unit |-> "m" ]

\* ui, lines 233-244: the age annotation " ({n}{unit})" of a branch whose
\* commit time is t, drawn at time now (both in whole seconds).
time_ago(now, t) ==
    LET duration == now - t
        num_days == TruncDiv(duration, 86400)
        num_hours == TruncDiv(duration, 3600)
        num_minutes == TruncDiv(duration, 60)
    IN  IF num_days > 0 THEN [ n |-> num_days, unit |-> "d" ]
        ELSE IF num_hours > 0 THEN [ n |-> num_hours, unit |-> "h" ]
        ELSE [ n |-> Max(num_minutes, 1), unit |-> "m" ]

\* ui, lines 176-258: the frame drawn for filter f, rows fb, selection sel
\* and branches bs: the filter line (None when the filter is empty) and one
\* row per filtered index with its markers, name and age.
ui(f, fb, sel, bs) ==
    [ filter_line |-> IF f = << >> THEN None ELSE Some(f),
      rows |-> [ idx \in 1..Len(fb) |->
                   LET branch == bs[fb[idx] + 1]
                   IN  [ is_selected |-> (sel = Some(idx - 1)),
                         is_current |-> branch.is_current,
                         name |-> branch.name,
                         time_ago |-> time_ago(Now, branch.last_commit_time) ] ] ]

\* Terminal::draw of the current App state: the frame now on the screen.
\* The variable frame is None until the first draw.
draw == Some(ui(filter, filtered_branches, selected, branches))

Released == ~raw_mode /\ ~alt_screen /\ ~cursor_hidden

NothingShown == [ stream |-> "none", err |-> Unset, released |-> FALSE ]

Init ==
    /\ pc = "enable_raw_mode"
    /\ raw_mode = FALSE /\ alt_screen = FALSE
    /\ mouse_capture = FALSE /\ cursor_hidden = FALSE
    /\ branches = << >> /\ filtered_branches = << >>
    /\ selected = None /\ filter = << >>
    /\ res = Unset
    /\ invocations = << >>
    /\ shown = NothingShown
    /\ exit_code = -1
    /\ frame = None
    /\ lastEvent = NoEvent
    /\ prev = NoSnapshot

\* ReturnErr with exit status 0.
ReturnErr_success(e) ==
    /\ pc' = "done"
    /\ exit_code' = 0
    /\ shown' = [ stream |-> "stderr", err |-> e, released |-> Released' ]

\* main returns Err(e) through `?`: the runtime prints the error on standard
\* error and the process exits with status 1; nothing else of main runs.
ReturnErr(e) ==
    /\ pc' = "done"
    /\ exit_code' = 1
    /\ shown' = [ stream |-> "stderr", err |-> e, released |-> Released' ]

\* ------------------------------------------------------ terminal acquisition
\* main, line 284: enable_raw_mode()?
EnableRawMode ==
    /\ pc = "enable_raw_mode"
    /\ UNCHANGED << alt_screen, mouse_capture, cursor_hidden, appVars, res,
                    invocations, frame, histVars >>
    /\ \/ /\ raw_mode' = TRUE
          /\ pc' = "enter_alternate_screen"
          /\ UNCHANGED << exit_code, shown >>
       \/ /\ raw_mode' = FALSE
          /\ ReturnErr(Err("io", "enable_raw_mode"))

\* main, lines 285-286: execute!(stdout, EnterAlternateScreen, EnableMouseCapture)?
\* A failed write may or may not have switched the screen already.
EnterAlternateScreen ==
    /\ pc = "enter_alternate_screen"
    /\ UNCHANGED << raw_mode, cursor_hidden, appVars, res, invocations, frame,
                    histVars >>
    /\ \/ /\ alt_screen' = TRUE /\ mouse_capture' = TRUE
          /\ pc' = "terminal_new"
          /\ UNCHANGED << exit_code, shown >>
       \/ /\ alt_screen' \in BOOLEAN /\ mouse_capture' = FALSE
          /\ ReturnErr(Err("io", "EnterAlternateScreen"))

\* main, lines 287-288: Terminal::new(backend)?
TerminalNew ==
    /\ pc = "terminal_new"
    /\ UNCHANGED << termVars, appVars, res, invocations, frame, histVars >>
    /\ \/ /\ pc' = "app_new"
          /\ UNCHANGED << exit_code, shown >>
       \/ ReturnErr(Err("io", "Terminal::new"))

\* Positions of the branch that is HEAD in a repository of n branches:
\* none (detached HEAD), the first enumerated, the last enumerated.
Heads(n) == { 0, 1, n }

\* main, line 290: App::new()?  = fetch_branches()? then update_filter().
AppNew ==
    /\ pc = "app_new"
    /\ UNCHANGED << termVars, res, invocations, frame, lastEvent, prev >>
    /\ \/ \E n \in 0..MaxRepoBranches, stride \in 1..MaxStride :
          \E head \in Heads(n) :
            LET bs == fetch_branches(Repo(n, head, stride))
                uf == update_filter(bs, << >>)
            IN  /\ branches' = bs
                /\ filter' = << >>
                /\ filtered_branches' = uf.filtered_branches
                /\ selected' = uf.selected
                /\ pc' = "draw"
                /\ UNCHANGED << exit_code, shown >>
       \/ /\ ReturnErr(Err("repository", "could not find repository"))
          /\ UNCHANGED appVars

\* ------------------------------------------------------------------ run_app
\* run_app returns r: main binds it to `res` and goes on to the teardown.  The
\* App was moved into run_app (line 291) and is dropped with its return.
LeaveLoop(r) ==
    /\ res' = r
    /\ pc' = "disable_raw_mode"
    /\ branches' = << >> /\ filtered_branches' = << >>
    /\ selected' = None /\ filter' = << >>

\* run_app, line 262: terminal.draw(|f| ui(f, &mut app))?
\* Terminal::draw hides the cursor; ui reads the App and leaves selected as it
\* is whenever it is a valid row.
Draw ==
    /\ pc = "draw"
    /\ \/ /\ frame' = draw
          /\ cursor_hidden' = TRUE
          /\ pc' = "read"
          /\ UNCHANGED << res, appVars >>
       \/ /\ LeaveLoop(Err("io", "draw"))
          /\ UNCHANGED << frame, cursor_hidden >>
    /\ UNCHANGED << raw_mode, alt_screen, mouse_capture, invocations, shown,
                    exit_code, histVars >>

\* run_app, line 264: event::read()? fails.
ReadError ==
    /\ pc = "read"
    /\ LeaveLoop(Err("io", "event::read"))
    /\ UNCHANGED << termVars, invocations, shown, exit_code, frame, histVars >>

\* History kept when event ev is read in the current App state.
Record(ev) ==
    /\ lastEvent' = ev
    /\ prev' = Snapshot

\* KeyQuit that goes round the loop instead of returning.
KeyQuit_continue ==
    /\ pc = "read"
    /\ \E ev \in KeyEvents :
         /\ IsQuitKey(ev)
         /\ Record(ev)
    /\ pc' = "draw"
    /\ UNCHANGED << termVars, appVars, res, invocations, shown, exit_code, frame >>

\* line 267: KeyCode::Char('q') | KeyCode::Esc => return Ok(())
KeyQuit ==
    /\ pc = "read"
    /\ \E ev \in KeyEvents :
         /\ IsQuitKey(ev)
         /\ Record(ev)
    /\ LeaveLoop(Ok)
    /\ UNCHANGED << termVars, invocations, shown, exit_code, frame >>

\* KeyNext that waits for the next event without a redraw.
KeyNext_no_redraw ==
    /\ pc = "read"
    /\ \E ev \in KeyEvents :
         /\ IsNextKey(ev)
         /\ Record(ev)
    /\ selected' = next(selected, Len(filtered_branches))
    /\ pc' = "read"
    /\ UNCHANGED << termVars, branches, filtered_branches, filter, res,
                    invocations, shown, exit_code, frame >>

\* line 268: KeyCode::Down | KeyCode::Char('j') => app.next()
KeyNext ==
    /\ pc = "read"
    /\ \E ev \in KeyEvents :
         /\ IsNextKey(ev)
         /\ Record(ev)
    /\ selected' = next(selected, Len(filtered_branches))
    /\ pc' = "draw"
    /\ UNCHANGED << termVars, branches, filtered_branches, filter, res,
                    invocations, shown, exit_code, frame >>

\* line 269: KeyCode::Up | KeyCode::Char('k') => app.previous()
KeyPrevious ==
    /\ pc = "read"
    /\ \E ev \in KeyEvents :
         /\ IsPreviousKey(ev)
         /\ Record(ev)
    /\ selected' = previous(selected, Len(filtered_branches))
    /\ pc' = "draw"
    /\ UNCHANGED << termVars, branches, filtered_branches, filter, res,
                    invocations, shown, exit_code, frame >>

\* checkout_target that indexes branches with the cursor itself, not with
\* the filtered index under it.
checkout_target_unfiltered(sel, fb, bs) ==
    IF sel # None /\ sel[1] < Len(bs) /\ ~bs[sel[1] + 1].is_current
    THEN << bs[sel[1] + 1].name >>
    ELSE << >>

\* checkout_target without the is_current test of line 147.
checkout_target_any(sel, fb, bs) ==
    IF sel # None /\ sel[1] < Len(fb) /\ fb[sel[1] + 1] < Len(bs)
    THEN << bs[fb[sel[1] + 1] + 1].name >>
    ELSE << >>

\* checkout_selected, lines 144-147: the branch `git checkout` is run for, as
\* an Option: None when nothing is selected or the selection is current.
checkout_target(sel, fb, bs) ==
    IF sel # None /\ sel[1] < Len(fb) /\ fb[sel[1] + 1] < Len(bs)
       /\ ~bs[fb[sel[1] + 1] + 1].is_current
    THEN << bs[fb[sel[1] + 1] + 1].name >>
    ELSE << >>

\* Outcomes of Command::new("git").args(["checkout", name]).output()?, lines
\* 148-157, as the Result checkout_selected returns.
CheckoutOutcomes ==
    { Ok, Err("io", "spawn git") }
    \cup { Err("checkout", t) : t \in StderrTexts }

\* KeyEnter that stays in the loop when the checkout fails.
KeyEnter_retry ==
    /\ pc = "read"
    /\ \E ev \in KeyEvents :
         /\ IsEnterKey(ev)
         /\ Record(ev)
    /\ LET target == checkout_target(selected, filtered_branches, branches)
       IN  IF target # << >>
           THEN \E r \in CheckoutOutcomes :
                  /\ invocations' = Append(invocations, [name |-> target[1], result |-> r])
                  /\ IF r = Ok
                     THEN LeaveLoop(r)
                     ELSE pc' = "draw" /\ UNCHANGED << res, appVars >>
           ELSE /\ invocations' = invocations
                /\ LeaveLoop(Ok)
    /\ UNCHANGED << termVars, shown, exit_code, frame >>

\* KeyEnter that fails when no row is selected.
KeyEnter_error_on_none ==
    /\ pc = "read"
    /\ \E ev \in KeyEvents :
         /\ IsEnterKey(ev)
         /\ Record(ev)
    /\ LET target == checkout_target(selected, filtered_branches, branches)
       IN  IF target # << >>
           THEN \E r \in CheckoutOutcomes :
                  /\ invocations' = Append(invocations, [name |-> target[1], result |-> r])
                  /\ LeaveLoop(r)
           ELSE /\ invocations' = invocations
                /\ LeaveLoop(IF selected = None
                             THEN Err("checkout", "no branch selected") ELSE Ok)
    /\ UNCHANGED << termVars, shown, exit_code, frame >>

\* lines 270-273: KeyCode::Enter => { app.checkout_selected()?; return Ok(()); }
KeyEnter ==
    /\ pc = "read"
    /\ \E ev \in KeyEvents :
         /\ IsEnterKey(ev)
         /\ Record(ev)
    /\ LET target == checkout_target(selected, filtered_branches, branches)
       IN  IF target # << >>
           THEN \E r \in CheckoutOutcomes :
                  /\ invocations' = Append(invocations, [name |-> target[1], result |-> r])
                  /\ LeaveLoop(r)
           ELSE /\ invocations' = invocations
                /\ LeaveLoop(Ok)
    /\ UNCHANGED << termVars, shown, exit_code, frame >>

\* App::remove_char: String::pop then update_filter.
remove_char(f) == IF f = << >> THEN f ELSE SubSeq(f, 1, Len(f) - 1)

\* add_char that inserts at the front.
add_char_front(f, c) == << c >> \o f

\* App::add_char: String::push then update_filter.
add_char(f, c) == Append(f, c)

\* SetFilter that keeps the selection while it is still a valid row.
SetFilter_keep_selection(f) ==
    LET uf == update_filter(branches, f)
    IN  /\ filter' = f
        /\ filtered_branches' = uf.filtered_branches
        /\ selected' = IF selected # None /\ selected[1] < Len(uf.filtered_branches)
                       THEN selected ELSE uf.selected

\* The filter becomes f: update_filter recomputes the rows and the selection.
SetFilter(f) ==
    LET uf == update_filter(branches, f)
    IN  /\ filter' = f
        /\ filtered_branches' = uf.filtered_branches
        /\ selected' = uf.selected

\* line 274: KeyCode::Backspace => app.remove_char()
KeyBackspace ==
    /\ pc = "read"
    /\ \E ev \in KeyEvents :
         /\ IsBackspaceKey(ev)
         /\ Record(ev)
    /\ SetFilter(remove_char(filter))
    /\ pc' = "draw"
    /\ UNCHANGED << termVars, branches, res, invocations, shown, exit_code, frame >>

\* line 275: KeyCode::Char(c) => app.add_char(c)
KeyChar ==
    /\ pc = "read"
    /\ Len(filter) < MaxFilterLen
    /\ \E ev \in KeyEvents :
         /\ IsCharKey(ev)
         /\ Record(ev)
         /\ SetFilter(add_char(filter, ev.ch))
    /\ pc' = "draw"
    /\ UNCHANGED << termVars, branches, res, invocations, shown, exit_code, frame >>

\* lines 264-265 and 276: an event that is not a key, a key that is not
\* pressed, or a pressed key without an arm: the loop goes round.
IgnoredEvent ==
    /\ pc = "read"
    /\ \E ev \in KeyEvents \cup OtherEvents :
         /\ IsIgnored(ev)
         /\ Record(ev)
    /\ pc' = "draw"
    /\ UNCHANGED << termVars, appVars, res, invocations, shown, exit_code, frame >>

\* ----------------------------------------------------------------- teardown
\* main, line 293: disable_raw_mode()?
DisableRawMode ==
    /\ pc = "disable_raw_mode"
    /\ UNCHANGED << alt_screen, mouse_capture, cursor_hidden, appVars, res,
                    invocations, frame, histVars >>
    /\ \/ /\ raw_mode' = FALSE
          /\ pc' = "leave_alternate_screen"
          /\ UNCHANGED << exit_code, shown >>
       \/ /\ raw_mode' = raw_mode
          /\ ReturnErr(Err("io", "disable_raw_mode"))

\* main, lines 294-298: execute!(.., LeaveAlternateScreen, DisableMouseCapture)?
\* The frame is on the alternate screen and goes with it.
LeaveAlternateScreen ==
    /\ pc = "leave_alternate_screen"
    /\ UNCHANGED << raw_mode, cursor_hidden, appVars, res, invocations, histVars >>
    /\ \/ /\ alt_screen' = FALSE /\ mouse_capture' = FALSE
          /\ pc' = "show_cursor"
          /\ UNCHANGED << exit_code, shown >>
       \/ /\ alt_screen' \in { alt_screen, FALSE } /\ mouse_capture' = mouse_capture
          /\ ReturnErr(Err("io", "LeaveAlternateScreen"))
    /\ frame' = IF alt_screen' THEN frame ELSE None

\* ShowCursor that leaves the cursor as it is.
ShowCursor_noop ==
    /\ pc = "show_cursor"
    /\ UNCHANGED << termVars, appVars, res, invocations, frame, histVars >>
    /\ pc' = "report"
    /\ UNCHANGED << exit_code, shown >>

\* main, line 299: terminal.show_cursor()?
ShowCursor ==
    /\ pc = "show_cursor"
    /\ UNCHANGED << raw_mode, alt_screen, mouse_capture, appVars, res,
                    invocations, frame, histVars >>
    /\ \/ /\ cursor_hidden' = FALSE
          /\ pc' = "report"
          /\ UNCHANGED << exit_code, shown >>
       \/ /\ cursor_hidden' = cursor_hidden
          /\ ReturnErr(Err("io", "show_cursor"))

\* main, lines 301-305: if let Err(err) = res { println!(..) }  Ok(())
Report ==
    /\ pc = "report"
    /\ shown' = IF res.state = "err"
                THEN [ stream |-> "stdout", err |-> res, released |-> Released ]
                ELSE shown
    /\ exit_code' = 0
    /\ pc' = "done"
    /\ UNCHANGED << termVars, appVars, res, invocations, frame, histVars >>

Next ==
    \/ EnableRawMode
    \/ EnterAlternateScreen
    \/ TerminalNew
    \/ AppNew
    \/ Draw
    \/ ReadError
    \/ KeyQuit
    \/ KeyNext
    \/ KeyPrevious
    \/ KeyEnter
    \/ KeyBackspace
    \/ KeyChar
    \/ IgnoredEvent
    \/ DisableRawMode
    \/ LeaveAlternateScreen
    \/ ShowCursor
    \/ Report

Spec == Init /\ [][Next]_vars

\* ------------------------------------------------------------------- claims
\* The App exists: main is inside run_app.
InLoop == pc \in { "draw", "read" }

\* The filter predicate of the Branch List Model on one branch.
Matches(b, f) == contains(to_lowercase(b.name), to_lowercase(f))

\* C1: while the App exists, filtered_branches is exactly the ascending list
\* of the indices i whose lowercased branch name contains the lowercased
\* filter; every index when the filter is empty.
C1_FilteredIsExactMatchSet ==
    InLoop =>
      /\ \A k \in 1..Len(filtered_branches) :
           /\ filtered_branches[k] \in 0..(Len(branches) - 1)
           /\ Matches(branches[filtered_branches[k] + 1], filter)
      /\ \A i \in 0..(Len(branches) - 1) :
           Matches(branches[i + 1], filter)
             => \E k \in 1..Len(filtered_branches) : filtered_branches[k] = i
      /\ \A k \in 1..(Len(filtered_branches) - 1) :
           filtered_branches[k] < filtered_branches[k + 1]
      /\ (filter = << >> => Len(filtered_branches) = Len(branches))

\* A filter with an upper-case letter selects some rows, skips an earlier
\* one, and was produced by a key press.
C1_Witness ==
    /\ InLoop
    /\ filter = << "J" >>
    /\ IsCharKey(lastEvent)
    /\ Len(filtered_branches) >= 2
    /\ Len(filtered_branches) < Len(branches)
    /\ filtered_branches[1] > 0

\* C2: while the App exists, the cursor is None exactly when
\* filtered_branches is empty, and otherwise Some(p) with 0 <= p < len.
C2_CursorValid ==
    InLoop =>
      /\ (selected = None) <=> (filtered_branches = << >>)
      /\ selected # None => selected[1] \in 0..(Len(filtered_branches) - 1)

\* The cursor is None over an empty list that a filter produced from a
\* non-empty Branch Set.
C2_Witness ==
    /\ InLoop
    /\ branches # << >>
    /\ filtered_branches = << >>
    /\ selected = None
    /\ prev.selected # None

\* C3: after an event that changed the Filter Text, the cursor is 0 if the
\* new filtered list is non-empty and None if it is empty, whatever it was.
C3_FilterChangeResetsCursor ==
    (InLoop /\ (IsCharKey(lastEvent) \/ IsBackspaceKey(lastEvent))
       /\ filter # prev.filter)
      => selected = (IF filtered_branches # << >> THEN Some(0) ELSE None)

\* The cursor had been moved off row 0 and the filter change left that row
\* in the list.
C3_Witness ==
    /\ InLoop
    /\ IsCharKey(lastEvent)
    /\ filter # prev.filter
    /\ prev.selected # None /\ prev.selected[1] > 0
    /\ prev.selected[1] < Len(filtered_branches)
    /\ selected = Some(0)

\* main returned before the terminal was acquired (raw mode and alternate
\* screen): one of the two acquiring calls failed.
ExitedBeforeAcquired ==
    /\ shown.stream = "stderr"
    /\ shown.err.text \in { "enable_raw_mode", "EnterAlternateScreen" }

\* One of the releasing calls of the teardown itself failed.
TeardownFailed ==
    /\ shown.stream = "stderr"
    /\ shown.err.text \in { "disable_raw_mode", "LeaveAlternateScreen", "show_cursor" }

\* C4: whenever the process ends after the terminal was acquired, the
\* terminal is released, and it was released when an error was reported.
C4_TerminalReleasedOnEveryExit ==
    (pc = "done" /\ ~ExitedBeforeAcquired /\ ~TeardownFailed)
      => /\ Released
         /\ (shown.stream # "none" => shown.released)

\* C5: Enter on a highlighted branch that is current starts no checkout,
\* yields Ok and leaves the loop.
C5_EnterOnCurrentIsNoop ==
    (IsEnterKey(lastEvent) /\ prev.highlighted # << >>
       /\ prev.highlighted[1].is_current)
      => /\ invocations = << >>
         /\ res = Ok
         /\ ~InLoop

\* The session ended with status 0 after Enter on the current branch, which
\* was not the only row.
C5_Witness ==
    /\ IsEnterKey(lastEvent)
    /\ prev.highlighted # << >> /\ prev.highlighted[1].is_current
    /\ Len(prev.filtered_branches) >= 2
    /\ prev.selected # Some(0)
    /\ pc = "done" /\ exit_code = 0

\* C6: once Enter was pressed the loop is left, whatever the checkout
\* returned; no further event is read and no further checkout starts, so a
\* session starts at most one checkout.
C6_EnterEndsLoop ==
    /\ [](Len(invocations) <= 1)
    /\ [](IsEnterKey(lastEvent) => ~InLoop)
    /\ [][IsEnterKey(lastEvent) => UNCHANGED << lastEvent, prev, invocations >>]_vars

\* Enter started a checkout that failed, and the process went on to its end.
C6_Witness ==
    /\ IsEnterKey(lastEvent)
    /\ Len(invocations) = 1
    /\ res.state = "err" /\ res.source = "checkout"
    /\ pc = "done"

\* The cursor after k calls of next from sel over len rows.
RECURSIVE next_times(_, _, _)
next_times(sel, len, k) ==
    IF k = 0 THEN sel ELSE next(next_times(sel, len, k - 1), len)

\* C7: over N >= 1 rows, N calls of next bring the cursor back to where it
\* is, every position on the way is inside [0, N), and exactly one of the N
\* calls is the wrap from N - 1 to 0.
C7_NextNTimesReturns ==
    (InLoop /\ Len(filtered_branches) >= 1) =>
      LET N == Len(filtered_branches)
          pos(k) == next_times(selected, N, k)
      IN  /\ pos(N) = selected
          /\ \A k \in 0..N : pos(k) # None /\ pos(k)[1] \in 0..(N - 1)
          /\ Cardinality({ k \in 1..N : pos(k - 1) = Some(N - 1) /\ pos(k) = Some(0) }) = 1

\* The cursor was moved by next to a row in the middle of a list of at least
\* three rows.
C7_Witness ==
    /\ InLoop
    /\ IsNextKey(lastEvent)
    /\ Len(filtered_branches) >= 3
    /\ selected # None
    /\ selected[1] >= 1 /\ selected[1] < Len(filtered_branches) - 1

\* C8: after Down or 'j', the cursor is 0 if it was on the last row and one
\* more than it was otherwise; over an empty list nothing changes.
C8_NextStep ==
    (InLoop /\ IsNextKey(lastEvent)) =>
      LET N == Len(prev.filtered_branches)
      IN  /\ filter = prev.filter
          /\ filtered_branches = prev.filtered_branches
          /\ IF N = 0
             THEN selected = None /\ prev.selected = None
             ELSE /\ prev.selected # None
                  /\ selected = (IF prev.selected[1] = N - 1
                                 THEN Some(0) ELSE Some(prev.selected[1] + 1))

\* 'j' on the last of several rows wrapped to row 0.
C8_Witness ==
    /\ InLoop
    /\ IsNextKey(lastEvent) /\ lastEvent.ch = "j"
    /\ Len(prev.filtered_branches) >= 2
    /\ prev.selected = Some(Len(prev.filtered_branches) - 1)
    /\ selected = Some(0)

\* C9: after Up or 'k', the cursor is len - 1 if it was on row 0 and one
\* less than it was otherwise; over an empty list nothing changes.
C9_PreviousStep ==
    (InLoop /\ IsPreviousKey(lastEvent)) =>
      LET N == Len(prev.filtered_branches)
      IN  /\ filter = prev.filter
          /\ filtered_branches = prev.filtered_branches
          /\ IF N = 0
             THEN selected = None /\ prev.selected = None
             ELSE /\ prev.selected # None
                  /\ selected = (IF prev.selected[1] = 0
                                 THEN Some(N - 1) ELSE Some(prev.selected[1] - 1))

\* 'k' on row 0 of several rows wrapped to the last row.
C9_Witness ==
    /\ InLoop
    /\ IsPreviousKey(lastEvent) /\ lastEvent.ch = "k"
    /\ Len(prev.filtered_branches) >= 2
    /\ prev.selected = Some(0)
    /\ selected = Some(Len(prev.filtered_branches) - 1)

\* The characters that have an arm of their own before Char(c) in run_app.
BoundChars == { "q", "j", "k" }

\* C10 as stated: after a pressed Char(c) key, for every c, the Filter Text
\* is the old one followed by c.
C10_EveryCharAppends ==
    (InLoop /\ IsPress(lastEvent) /\ lastEvent.code = "Char")
      => filter = Append(prev.filter, lastEvent.ch)

\* C10 amended: after a pressed Char(c) key with c other than 'q', 'j' and
\* 'k', the Filter Text is the old one followed by c.
C10_UnboundCharAppends ==
    (InLoop /\ IsPress(lastEvent) /\ lastEvent.code = "Char"
       /\ lastEvent.ch \notin BoundChars)
      => filter = Append(prev.filter, lastEvent.ch)

\* 'J' was typed after 'a': it went to the end of the filter.
C10_Witness ==
    /\ InLoop
    /\ IsPress(lastEvent) /\ lastEvent.code = "Char" /\ lastEvent.ch = "J"
    /\ prev.filter = << "a" >>
    /\ filter = << "a", "J" >>

\* C11 as stated: after Backspace on an empty Filter Text, the Filter Text,
\* the filtered list and the cursor are what they were before.
C11_BackspaceOnEmptyIsNoop ==
    (InLoop /\ IsBackspaceKey(lastEvent) /\ prev.filter = << >>)
      => /\ filter = prev.filter
         /\ filtered_branches = prev.filtered_branches
         /\ selected = prev.selected

SortedDescending(bs) ==
    \A k \in 1..(Len(bs) - 1) : bs[k].last_commit_time >= bs[k + 1].last_commit_time

Elements(s) == { s[k] : k \in 1..Len(s) }

\* The Branch Set bs is the most recent part of the named branches of repo:
\* as many as the cap allows, and no branch left out is more recent than
\* one that is in.
MostRecentOf(bs, repo) ==
    LET all == collect_branches(repo)
    IN  /\ Elements(bs) \subseteq Elements(all)
        /\ Len(bs) = (IF Len(all) < BranchCap THEN Len(all) ELSE BranchCap)
        /\ \A o \in Elements(all) \ Elements(bs) : \A b \in Elements(bs) :
             o.last_commit_time <= b.last_commit_time

\* C12: while the App exists the Branch Set has at most 10 entries and is
\* sorted descending by last_commit_time; right after the load it is the
\* most recent part of whichever repository it was loaded from; no step of
\* the loop changes it.
C12_BranchSetCappedSortedFixed ==
    /\ [](InLoop => Len(branches) <= BranchCap /\ SortedDescending(branches))
    /\ []((pc = "draw" /\ lastEvent = NoEvent) =>
            \A n \in 0..MaxRepoBranches, stride \in 1..MaxStride :
              \A head \in Heads(n) :
                branches = fetch_branches(Repo(n, head, stride))
                  => MostRecentOf(branches, Repo(n, head, stride)))
    /\ [][(InLoop /\ InLoop') => branches' = branches]_vars

\* A repository with more named branches than the cap was loaded, its
\* Branch Set holds different timestamps, and keys were handled since.
C12_Witness ==
    /\ InLoop
    /\ Len(branches) = BranchCap
    /\ branches[1].last_commit_time > branches[BranchCap].last_commit_time
    /\ \E n \in 0..MaxRepoBranches, stride \in 1..MaxStride :
         \E head \in Heads(n) :
           /\ branches = fetch_branches(Repo(n, head, stride))
           /\ Len(collect_branches(Repo(n, head, stride))) > BranchCap
    /\ IsCharKey(lastEvent)
    /\ filter # << >>

\* C13: a quit key leaves the loop with Ok and without a checkout, and a
\* checkout is only ever started by the step that handles a pressed Enter.
C13_CheckoutOnlyOnEnter ==
    /\ [](IsQuitKey(lastEvent) => (~InLoop /\ invocations = << >> /\ res = Ok))
    /\ [](invocations # << >> => IsEnterKey(lastEvent))
    /\ [][invocations' # invocations => (pc = "read" /\ IsEnterKey(lastEvent'))]_vars

\* 'q' ended a session in which the cursor had been moved; the process
\* came to its end without a checkout.
C13_Witness ==
    /\ IsQuitKey(lastEvent) /\ lastEvent.ch = "q"
    /\ prev.selected # None /\ prev.selected[1] > 0
    /\ prev.highlighted # << >> /\ ~prev.highlighted[1].is_current
    /\ invocations = << >>
    /\ pc = "done" /\ exit_code = 0

\* The process ended on the failure of App::new.
StartupFailed == pc = "done" /\ shown.err.source = "repository"

C15_CheckoutErrorShownAfterTeardown ==
    /\ (invocations # << >> /\ invocations[1].result.source = "checkout")
         => /\ res = invocations[1].result
            /\ res.state = "err" /\ res.text \in StderrTexts
            /\ ~InLoop
            /\ Len(invocations) = 1
    /\ shown.err.source = "checkout"
         => /\ shown.err = res
            /\ shown.stream = "stdout"
            /\ shown.released /\ Released
            /\ pc = "done"

\* A checkout failed with a non-empty standard error and the text was shown.
C15_Witness ==
    /\ shown.err.source = "checkout"
    /\ shown.err.text = "error: pathspec did not match"
    /\ Len(invocations) = 1
    /\ pc = "done"

\* C16: the loop alternates one draw and one read, starting with a draw:
\* whenever it waits for an event the frame on screen is the frame of the
\* current App state, a handled event that keeps the loop going is followed
\* by a draw, a draw by a read, and no event was read before the first draw.
C16_RedrawBeforeEveryRead ==
    /\ [](pc = "read" => frame = Some(ui(filter, filtered_branches, selected, branches)))
    /\ [][(lastEvent = NoEvent /\ lastEvent' # NoEvent) => frame # None]_vars
    /\ [][(pc = "read" /\ InLoop') => pc' = "draw"]_vars
    /\ [][(pc = "draw" /\ InLoop')
            => (pc' = "read"
                /\ frame' = Some(ui(filter', filtered_branches', selected', branches')))]_vars

\* The loop waits for an event after a typed character changed the filter:
\* the frame shows the new filter line and the new rows.
C16_Witness ==
    /\ pc = "read"
    /\ IsCharKey(lastEvent)
    /\ filter # prev.filter
    /\ frame # None
    /\ frame[1].filter_line = Some(filter)
    /\ Len(frame[1].rows) >= 1
    /\ Len(frame[1].rows) < Len(branches)

\* An event that is not actionable: not a key, a key that is not pressed, or
\* a pressed key with a code that has no mapping.
NotActionable(ev) ==
    \/ ev.type # "Key"
    \/ ev.kind # "Press"
    \/ ev.code \notin { "Char", "Esc", "Down", "Up", "Enter", "Backspace" }

\* This step handles the event that event::read returned.
EventHandled == pc = "read" /\ pc' # "read" /\ res' # Err("io", "event::read")

\* C17: the step that handles an event that is not actionable changes
\* neither the Filter Text, the filtered list nor the cursor, starts no
\* checkout and goes on to the next draw of the loop.
C17_OnlyPressesAct ==
    [][(EventHandled /\ NotActionable(lastEvent'))
         => (pc' = "draw"
             /\ UNCHANGED << filter, filtered_branches, selected, branches,
                             invocations, res >>)]_vars

\* A released Enter key arrived while a filter was typed and the cursor was
\* off row 0 on another branch than the current one: nothing changed.
C17_Witness ==
    /\ pc = "draw"
    /\ lastEvent = Key("Enter", "", "Release")
    /\ prev.filter # << >>
    /\ prev.selected # None /\ prev.selected[1] > 0
    /\ ~prev.highlighted[1].is_current
    /\ Snapshot = prev
    /\ invocations = << >>

\* ------------------------------------------------------- the age annotation
\* Commit ages in seconds around the multiples of a minute, an hour and a
\* day, negative ones (commit time in the future) included.
AgeInputs ==
    { m * unit + off : m \in (-2)..MaxAgeUnits, unit \in { 60, 3600, 86400 },
                       off \in { -1, 0, 1 } }

\* The loop of run_app about to draw a single branch whose commit is d
\* seconds old: the state App::new leaves for a repository of one branch.
InitAge ==
    /\ pc = "draw"
    /\ raw_mode = TRUE /\ alt_screen = TRUE
    /\ mouse_capture = TRUE /\ cursor_hidden = FALSE
    /\ \E d \in AgeInputs, cur \in BOOLEAN :
         branches = << [ name |-> BranchName(1), is_current |-> cur,
                         last_commit_time |-> Now - d ] >>
    /\ filter = << >>
    /\ filtered_branches = update_filter(branches, << >>).filtered_branches
    /\ selected = update_filter(branches, << >>).selected
    /\ res = Unset
    /\ invocations = << >>
    /\ shown = NothingShown
    /\ exit_code = -1
    /\ frame = None
    /\ lastEvent = NoEvent
    /\ prev = NoSnapshot

\* The loop drawing and redrawing while nothing actionable arrives.
NextAge ==
    \/ Draw
    \/ IgnoredEvent

SpecAge == InitAge /\ [][NextAge]_vars

\* The annotation for an elapsed time of d seconds: whole days from one day
\* on, else whole hours from one hour on, else whole minutes but at least 1.
ClaimedAge(d) ==
    IF d >= 86400 THEN [ n |-> d \div 86400, unit |-> "d" ]
    ELSE IF d >= 3600 THEN [ n |-> d \div 3600, unit |-> "h" ]
    ELSE [ n |-> (IF d \div 60 > 1 THEN d \div 60 ELSE 1), unit |-> "m" ]

\* C18: every row on the screen carries the annotation of the elapsed time
\* of its branch as ClaimedAge gives it, and none reads 0m.
C18_AgeAnnotation ==
    pc = "read" =>
      \A k \in 1..Len(filtered_branches) :
        LET d == Now - branches[filtered_branches[k] + 1].last_commit_time
            shownAge == frame[1].rows[k].time_ago
        IN  /\ shownAge = ClaimedAge(d)
            /\ shownAge.n >= 1

\* A branch whose commit time lies more than a minute in the future is on
\* the screen with 1m.
C18_Witness ==
    /\ pc = "read"
    /\ Len(filtered_branches) = 1
    /\ branches[1].last_commit_time > Now + 60
    /\ frame[1].rows[1].time_ago = [ n |-> 1, unit |-> "m" ]

\* C19: every checkout was started by Enter for the branch highlighted at
\* that moment; that branch is not the current one and its name contains
\* the Filter Text of that moment, case-insensitively.
C19_CheckoutTargetIsHighlighted ==
    \A k \in 1..Len(invocations) :
      /\ IsEnterKey(lastEvent)
      /\ prev.highlighted # << >>
      /\ prev.selected # None
      /\ prev.selected[1] < Len(prev.filtered_branches)
      /\ invocations[k].name = prev.highlighted[1].name
      /\ ~prev.highlighted[1].is_current
      /\ Matches(prev.highlighted[1], prev.filter)

\* A checkout succeeded for a row below the first of a filtered list in
\* which the filter hid branches above the highlighted one.
C19_Witness ==
    /\ Len(invocations) = 1
    /\ IsEnterKey(lastEvent)
    /\ prev.filter = << "J" >>
    /\ prev.selected # None /\ prev.selected[1] > 0
    /\ prev.filtered_branches[prev.selected[1] + 1] > prev.selected[1]
    /\ invocations[1].name = prev.highlighted[1].name
    /\ invocations[1].result = Ok

\* C20: Enter over an empty filtered list, where the cursor is None, starts
\* no checkout and leaves the loop with Ok; the process then ends with
\* status 0 unless the teardown fails.
C20_EnterOnEmptyListIsOk ==
    (IsEnterKey(lastEvent) /\ prev.filtered_branches = << >>)
      => /\ prev.selected = None
         /\ invocations = << >>
         /\ res = Ok
         /\ ~InLoop
         /\ (pc = "done" /\ ~TeardownFailed) => (exit_code = 0 /\ shown.stream = "none")

\* A typed filter matched no branch, Enter was pressed, and the process
\* ended with status 0 and nothing printed.
C20_Witness ==
    /\ IsEnterKey(lastEvent)
    /\ prev.filtered_branches = << >>
    /\ prev.filter # << >>
    /\ pc = "done" /\ exit_code = 0
    /\ shown.stream = "none"

====
